---- MODULE Spec2Model ----
(***************************************************************************)
(* Certified upper bound on the loss under data poisoning (certml).        *)
(*                                                                         *)
(* Two implementations of the regularized-dual-averaging (RDA) loop are    *)
(* modelled: the method UpperBound.cert_rda, driven by UpperBound.certify  *)
(* over a list of epsilons, and the free function                          *)
(* generate_upper_and_lower_bounds of the legacy module.                   *)
(*                                                                         *)
(* Numbers.  The program computes with reals.  Every quantity the loop     *)
(* derives from its inputs is either a rational or a rational divided by   *)
(* the square root of a rational (the scale current_lambda), so the model  *)
(* computes exactly:                                                       *)
(*   - a rational is a record [n, d] in lowest terms with d > 0;           *)
(*   - a non-negative root sqrt(q) is the record [sq |-> q];               *)
(*   - a quotient r / sqrt(q) is the record [num |-> r, lam |-> [sq |-> q]]*)
(* Values of the loss are results of the classifier's loss capability; the *)
(* model draws them from the finite sample LossVals.                       *)
(***************************************************************************)
EXTENDS Integers, Sequences, FiniteSets, TLC

\* ------------------------------------------------------------------------
\* Bounds of the model
\* ------------------------------------------------------------------------
\* Loop iterations in one behaviour: max_iter times the number of epsilons
MaxWork == 2

\* ------------------------------------------------------------------------
\* Exact rational arithmetic
\* ------------------------------------------------------------------------
Abs(i) == IF i < 0 THEN -i ELSE i

RECURSIVE GCD(_, _)
GCD(a, b) == IF b = 0 THEN a ELSE GCD(b, a % b)

Rat(n, d) ==
  LET g == GCD(Abs(n), Abs(d))
      s == IF d < 0 THEN -1 ELSE 1
  IN  [n |-> (s * n) \div g, d |-> (s * d) \div g]

Int2Rat(i) == [n |-> i, d |-> 1]

RAdd(p, q) == Rat(p.n * q.d + q.n * p.d, p.d * q.d)

RSub(p, q) == Rat(p.n * q.d - q.n * p.d, p.d * q.d)

RMul(p, q) == Rat(p.n * q.n, p.d * q.d)

RDiv(p, q) == Rat(p.n * q.d, p.d * q.n)

RLT(p, q) == p.n * q.d < q.n * p.d

RLE(p, q) == p.n * q.d <= q.n * p.d

RZero == Int2Rat(0)

ROne == Int2Rat(1)

\* None of Python, and the value of a local that was never assigned
None == [n |-> 0, d |-> 0]

\* ------------------------------------------------------------------------
\* Vectors of rationals
\* ------------------------------------------------------------------------
Pt(a, b, c) == << Int2Rat(a), Int2Rat(b), Int2Rat(c) >>

VZero(v) == [i \in DOMAIN v |-> RZero]

VSub(u, v) == [i \in DOMAIN u |-> RSub(u[i], v[i])]

VScale(c, v) == [i \in DOMAIN v |-> RMul(c, v[i])]

RECURSIVE DotUpTo(_, _, _)
DotUpTo(u, v, k) ==
  IF k = 0 THEN RZero ELSE RAdd(DotUpTo(u, v, k - 1), RMul(u[k], v[k]))

Dot(u, v) == DotUpTo(u, v, Len(u))

NormSq(v) == Dot(v, v)

\* ------------------------------------------------------------------------
\* Roots and quotients by roots
\* ------------------------------------------------------------------------
\* np.sqrt(a) / np.sqrt(b)
SqrtRatio(a, b) == [sq |-> RDiv(a, b)]

RootOfSquare(r) == [sq |-> RMul(r, r)]

RootGT(l1, l2) == RLT(l2.sq, l1.sq)

\* r / lam for a rational r (componentwise for a vector)
QDiv(r, lam) == [num |-> r, lam |-> lam]

\* the rational r as a quotient
QConst(r) == [num |-> r, lam |-> [sq |-> ROne]]

\* x |-> sign(x) * x^2 is strictly increasing: it orders the quotients
SignedSquare(q) ==
  LET s == RDiv(RMul(q.num, q.num), q.lam.sq)
  IN  IF q.num.n < 0 THEN RSub(RZero, s) ELSE s

QLT(p, q) == RLT(SignedSquare(p), SignedSquare(q))

QEq(p, q) == SignedSquare(p) = SignedSquare(q)

\* equality of two vectors num / lam
QVecEq(p, q) ==
  /\ DOMAIN p.num = DOMAIN q.num
  /\ \A i \in DOMAIN p.num :
       QEq(QDiv(p.num[i], p.lam), QDiv(q.num[i], q.lam))

\* np.linalg.norm(w) ** 2 + b ** 2
ParamsNormSq(w, b) ==
  RAdd(RDiv(NormSq(w.num), w.lam.sq), RDiv(RMul(b.num, b.num), b.lam.sq))

\* ------------------------------------------------------------------------
\* Inputs: clean data, defense geometry, hyperparameters
\* ------------------------------------------------------------------------
\* The clean datasets of the model (features, labels), with the
\* geometry the defense derives from them and the numeric hyperparameters.
Scenarios ==
  { [ X |-> << Pt(1, 0, 0), Pt(-1, 0, 0) >>,
      Y |-> << 1, -1 >>,
      class_map |-> [y \in {-1, 1} |-> IF y = -1 THEN 1 ELSE 2],
      centroids |-> << Pt(-1, 0, 0), Pt(1, 0, 0) >>,
      centroid_vec |-> Pt(2, 0, 0),
      sphere_radii |-> << Int2Rat(1), Int2Rat(1) >>,
      slab_radii |-> << Int2Rat(2), Int2Rat(2) >>,
      norm_sq_constraint |-> Int2Rat(1),
      learning_rate |-> Int2Rat(1) ],
    [ X |-> << Pt(1, 0, 0), Pt(0, 1, 0) >>,
      Y |-> << 1, 1 >>,
      class_map |-> [y \in {-1, 1} |-> IF y = -1 THEN 1 ELSE 2],
      centroids |-> << Pt(-1, 0, 0), Pt(1, 0, 0) >>,
      centroid_vec |-> Pt(2, 0, 0),
      sphere_radii |-> << Int2Rat(1), Int2Rat(1) >>,
      slab_radii |-> << Int2Rat(2), Int2Rat(2) >>,
      norm_sq_constraint |-> Int2Rat(4),
      learning_rate |-> Rat(1, 4) ],
    [ X |-> << Pt(2, 0, 0), Pt(-2, 0, 0) >>,
      Y |-> << 1, -1 >>,
      class_map |-> [y \in {-1, 1} |-> IF y = -1 THEN 1 ELSE 2],
      centroids |-> << Pt(-1, 0, 0), Pt(1, 0, 0) >>,
      centroid_vec |-> Pt(2, 0, 0),
      sphere_radii |-> << Int2Rat(1), Int2Rat(1) >>,
      slab_radii |-> << Int2Rat(2), Int2Rat(2) >>,
      norm_sq_constraint |-> Int2Rat(4),
      learning_rate |-> Rat(1, 2) ] }

\* Points the convex solver can return (a finite sample of feature space)
Grid ==
  { Pt(1, 0, 0), Pt(2, 0, 0), Pt(1, 1, 0), Pt(-1, 0, 0), Pt(-2, 0, 0) }

\* Magnitudes of the loss in the model.  The loss is a real number, zero
\* exactly when no margin is below 1; the model draws the positive ones.
LossVals == { 0, 1, 2, 20000 }

\* Values of epsilon (fraction of poisoned data)
EpsVals == { RZero, Rat(1, 2) }

\* Starting parameters a caller of the legacy function can pass
InitParams ==
  { [init_w |-> Pt(0, 0, 0), init_b |-> RZero],
    [init_w |-> Pt(2, 0, 0), init_b |-> RZero] }

\* Variant: every class of the class map, present in Y or not
LabelSet_AllClasses(Y) == { -1, 1 }

\* set(Y): the distinct labels, and the orders a set can enumerate them in
LabelSet(Y) == { Y[i] : i \in DOMAIN Y }

Enumerations(S) ==
  { o \in [1 .. Cardinality(S) -> S] : \A y \in S : \E i \in DOMAIN o : o[i] = y }

SeqsUpTo(S, k) == UNION { [1 .. m -> S] : m \in 1 .. k }

\* A sweep over a positive epsilon and then epsilon = 0, two iterations
\* each, on the clean data of a single label
LongSweeps(sc, mi) ==
  IF mi = 2 /\ Cardinality(LabelSet(sc.Y)) = 1
  THEN { << Rat(1, 2), RZero >> }
  ELSE { }

\* ------------------------------------------------------------------------
\* Loss gradient, margins, accuracy
\* ------------------------------------------------------------------------
\* y * (w.dot(x) + b), with w and b both divided by the same scale
Margin(y, x, wq, bq) ==
  QDiv(RMul(Int2Rat(y), RAdd(Dot(wq.num, x), bq.num)), wq.lam)

\* sv_indicators = margins < 1
SupportVectors(wq, bq, X, Y) ==
  { i \in DOMAIN Y : QLT(Margin(Y[i], X[i], wq, bq), QConst(ROne)) }

RECURSIVE SumNegYX(_, _, _, _)
SumNegYX(X, Y, sv, k) ==
  IF k = 0 THEN VZero(X[1])
  ELSE IF k \in sv
       THEN VSub(SumNegYX(X, Y, sv, k - 1), VScale(Int2Rat(Y[k]), X[k]))
       ELSE SumNegYX(X, Y, sv, k - 1)

RECURSIVE SumNegY(_, _, _)
SumNegY(Y, sv, k) ==
  IF k = 0 THEN 0
  ELSE IF k \in sv THEN SumNegY(Y, sv, k - 1) - Y[k]
       ELSE SumNegY(Y, sv, k - 1)

hinge_grad(wq, bq, X, Y) ==
  LET sv == SupportVectors(wq, bq, X, Y)
      n  == Len(X)
  IN  [ grad_w |-> VScale(Rat(1, n), SumNegYX(X, Y, sv, n)),
        grad_b |-> Rat(SumNegY(Y, sv, n), n) ]

\* The parameters as exact values, to recognise equal arguments of the loss
ParamKey(wq, bq) ==
  [ w |-> [i \in DOMAIN wq.num |-> SignedSquare(QDiv(wq.num[i], wq.lam))],
    b |-> SignedSquare(bq) ]

Margins(wq, bq, X, Y) == { Margin(Y[i], X[i], wq, bq) : i \in DOMAIN Y }

\* loss(x, y, w, b) of the classifier (hinge_loss of the legacy module is
\* the instance np.mean(np.maximum(1 - Y * (X.dot(w) + b), 0))): the values
\* it can take.  The loss is a function of its arguments: memo holds the
\* values it has already returned.
loss(memo, wq, bq, X, Y) ==
  LET key == [ p |-> ParamKey(wq, bq), X |-> X, Y |-> Y ]
  IN  IF \E e \in memo : e.key = key
      THEN { e.val : e \in { f \in memo : f.key = key } }
      ELSE IF \A m \in Margins(wq, bq, X, Y) : ~QLT(m, QConst(ROne))
           THEN { 0 }
           ELSE { v \in LossVals : v > 0 }

Remember(memo, wq, bq, X, Y, v) ==
  memo \cup { [ key |-> [ p |-> ParamKey(wq, bq), X |-> X, Y |-> Y ], val |-> v ] }

\* np.mean((Y * (X.dot(w) + b)) > 0)
GoodAcc(wq, bq, X, Y) ==
  Rat(Cardinality({ i \in DOMAIN Y :
                      QLT(QConst(RZero), Margin(Y[i], X[i], wq, bq)) }),
      Len(Y))

\* ------------------------------------------------------------------------
\* The attack-point oracle
\* ------------------------------------------------------------------------
\* Variant: the solve ignores the constraints of the defense
Feasible_Unconstrained(sc, y) == Grid

\* Points of the sample inside the sphere and the slab of the class of y
Feasible(sc, y) ==
  LET k == sc.class_map[y]
      c == sc.centroids[k]
      r == sc.sphere_radii[k]
      t == sc.slab_radii[k]
  IN  { x \in Grid :
          /\ RLE(RZero, r)
          /\ RLE(NormSq(VSub(x, c)), RMul(r, r))
          /\ LET p == Dot(sc.centroid_vec, VSub(x, c))
             IN  RLE(p, t) /\ RLE(RSub(RZero, t), p) }

\* The optimal points of: maximize 1 - y * w.x over the feasible set
minimize_over_feasible_set(sc, y, wq) ==
  UNION { { x \in DOMAIN obj : \A x2 \in DOMAIN obj : RLE(obj[x], obj[x2]) } :
          obj \in { [x \in Feasible(sc, y) |-> RMul(Int2Rat(y), Dot(wq.num, x))] } }

\* The assignments of candidates to labels the oracle can produce
Candidates(sc, wq) ==
  UNION { { cand \in [LabelSet(sc.Y) -> Grid] :
              \A y \in LabelSet(sc.Y) : cand[y] \in opt[y] } :
          opt \in { [y \in LabelSet(sc.Y) |-> minimize_over_feasible_set(sc, y, wq)] } }

\* Variant: a later candidate of equal margin replaces the current choice
IsWorse_OrEqual(margin, worst) == ~QLT(worst, margin)

\* margin < worst_margin
IsWorse(margin, worst) == QLT(margin, worst)

\* The loop over set(Y): keep the first candidate of strictly smaller margin
RECURSIVE WorstUpTo(_, _, _, _, _)
WorstUpTo(labels, cand, wq, bq, k) ==
  LET y == labels[k]
      m == Margin(y, cand[y], wq, bq)
      this == [worst_margin |-> m, worst_y_b |-> y, worst_x_b |-> cand[y]]
  IN  IF k = 1 THEN this
      ELSE LET prev == WorstUpTo(labels, cand, wq, bq, k - 1)
           IN  IF IsWorse(m, prev.worst_margin) THEN this ELSE prev

WorstCandidate(labels, cand, wq, bq) ==
  WorstUpTo(labels, cand, wq, bq, Len(labels))

\* ------------------------------------------------------------------------
\* The steps of one iteration
\* ------------------------------------------------------------------------
\* Variant: a margin of exactly 1 counts as inside the hinge
InHinge_Inclusive(margin) == ~QLT(QConst(ROne), margin)

\* if worst_margin < 1
InHinge(margin) == QLT(margin, QConst(ROne))

\* grad_w -= epsilon * worst_y_b * worst_x_b; grad_b -= epsilon * worst_y_b
FoldAttack(g, eps, worst) ==
  IF InHinge(worst.worst_margin)
  THEN [ grad_w |-> VSub(g.grad_w,
                         VScale(RMul(eps, Int2Rat(worst.worst_y_b)), worst.worst_x_b)),
         grad_b |-> RSub(g.grad_b, RMul(eps, Int2Rat(worst.worst_y_b))) ]
  ELSE g

\* total_loss = good_loss + epsilon * bad_loss
TotalLoss(gl, eps, bl) == RAdd(gl, RMul(eps, bl))

\* if best_upper_bound > total_loss
Improves(best, total) == RLT(total, best)

\* Variant: a worst margin of exactly 0 counts as classified correctly
BadAcc_AtLeastZero(margin) == IF QLT(margin, QConst(RZero)) THEN RZero ELSE ROne

\* 1.0 if worst_margin > 0 else 0.0
BadAcc(margin) == IF QLT(QConst(RZero), margin) THEN ROne ELSE RZero

\* Variant: the candidate scale leaves the bias accumulator out of the norm
CandidateLambda_NoBias(sgw, sgb, nsc) ==
  SqrtRatio(NormSq(sgw), nsc)

\* np.sqrt(np.linalg.norm(sum_of_grads_w)**2 + sum_of_grads_b**2)
\*   / np.sqrt(norm_sq_constraint)
CandidateLambda(sgw, sgb, nsc) ==
  SqrtRatio(RAdd(NormSq(sgw), RMul(sgb, sgb)), nsc)

\* Variant: the scale follows the candidate, also downwards
Ratchet_Follow(cur, candidate) == candidate

\* if candidate_lambda > current_lambda: current_lambda = candidate_lambda
Ratchet(cur, candidate) == IF RootGT(candidate, cur) THEN candidate ELSE cur

\* Variant: the parameters are divided by the scale of the previous iteration
DualAveragingUpdate_StaleScale(sgw, sgb, g, lam, nsc) ==
  LET nw == VSub(sgw, g.grad_w)
      nb == RSub(sgb, g.grad_b)
      nl == Ratchet(lam, CandidateLambda(nw, nb, nsc))
  IN  [ sum_of_grads_w |-> nw, sum_of_grads_b |-> nb, current_lambda |-> nl,
        w |-> QDiv(nw, lam), b |-> QDiv(nb, lam) ]

\* z[t] = z[t-1] - g[t]; lambda[t] = max(...); theta[t] = z[t] / lambda[t]
DualAveragingUpdate(sgw, sgb, g, lam, nsc) ==
  LET nw == VSub(sgw, g.grad_w)
      nb == RSub(sgb, g.grad_b)
      nl == Ratchet(lam, CandidateLambda(nw, nb, nsc))
  IN  [ sum_of_grads_w |-> nw, sum_of_grads_b |-> nb, current_lambda |-> nl,
        w |-> QDiv(nw, nl), b |-> QDiv(nb, nl) ]

\* x_bs[iter_idx, :] = worst_x_b (Python indexes from 0, the model from 1)
Store(arr, i, v) == [arr EXCEPT ![i + 1] = v]

\* ------------------------------------------------------------------------
\* State
\* ------------------------------------------------------------------------
VARIABLES
  flip,              \* label-flip baseline script: its data, the line it is
                     \* at and the dataset of the current epsilon (NoFlip: not run)
  attack,            \* sample_lower_bound_attack called on its own: arguments
                     \* and outcome (NoAttack: not called)
  pair,              \* cert_rda and generate_upper_and_lower_bounds run side
                     \* by side on the same inputs (NoPair: not run)
  svm,               \* svm_with_rho_squared: its locals (NoSvm: not called)
  minimizer,         \* legacy Minimizer object: the values of its cvx
                     \* parameters and variable (NoMinimizer: not followed)
  proj,              \* get_projection_matrix: its inputs, P.shape[0] and
                     \* the line it is at (NoProjection: not called)
  impl,              \* "cert_rda" or "legacy": which implementation runs
  cfg,               \* the inputs of the run (constant along a behaviour)
  pc,                \* "idle", "loop", "done", "error"
  idx,               \* certify: position in epsilons (from 1)
  results,           \* certify: the arrays total_loss, good_loss, bad_loss
  ret,               \* value returned by the last completed run
  self,              \* UpperBound object: best_upper_* fields, x_c, y_c
  writer,            \* history: position in epsilons of the run that last
                     \* wrote self.best_upper_* (0: never written)
  loss_memo,         \* the values the loss has returned, by argument
  self_at_call,      \* history: self.best_upper_* when the current call began
  min_total,         \* history: least total_loss of the current run's iterations
  epsilon,
  iter_idx,
  x_bs, y_bs,
  sum_of_grads_w, sum_of_grads_b,
  best_upper_bound,  \* the local variable of both loops
  best_upper,        \* legacy: the locals best_upper_good_loss, ...
  current_lambda,
  w, b,
  grad_w, grad_b,
  worst_margin, worst_y_b, worst_x_b,
  good_loss, bad_loss, total_loss, params_norm_sq

loopVars ==
  << epsilon, iter_idx, x_bs, y_bs, sum_of_grads_w, sum_of_grads_b,
     best_upper_bound, best_upper, current_lambda, w, b, grad_w, grad_b,
     worst_margin, worst_y_b, worst_x_b, good_loss, bad_loss,
     total_loss, params_norm_sq, min_total >>

vars ==
  << flip, attack, pair, svm, minimizer, proj, impl, cfg, pc, idx, results, ret, self, writer, self_at_call, loss_memo,
     loopVars >>

\* The record of the best bound with no field assigned
NoRecord ==
  [ best_upper_bound |-> None, best_upper_good_loss |-> None,
    best_upper_bad_loss |-> None, best_upper_params_norm_sq |-> None,
    best_upper_good_acc |-> None, best_upper_bad_acc |-> None ]

\* The legacy locals best_upper_good_loss .. best_upper_bad_acc, unassigned
NoBestLocals ==
  [ best_upper_good_loss |-> None,
    best_upper_bad_loss |-> None, best_upper_params_norm_sq |-> None,
    best_upper_good_acc |-> None, best_upper_bad_acc |-> None ]

\* UpperBound.__init__: the fields of the object after construction
NewUpperBound == [ best |-> NoRecord, x_c |-> None, y_c |-> None ]

\* The locals of a loop outside a call: none is assigned
NoLocals ==
  /\ epsilon = None
  /\ iter_idx = 0
  /\ x_bs = << >>
  /\ y_bs = << >>
  /\ sum_of_grads_w = None
  /\ sum_of_grads_b = None
  /\ best_upper_bound = None
  /\ best_upper = NoBestLocals
  /\ current_lambda = None
  /\ w = None
  /\ b = None
  /\ grad_w = None
  /\ grad_b = None
  /\ worst_margin = None
  /\ worst_y_b = 0
  /\ worst_x_b = None
  /\ good_loss = None
  /\ bad_loss = None
  /\ total_loss = None
  /\ params_norm_sq = None
  /\ min_total = None

\* The frame of a call is discarded
DropLocals ==
  /\ epsilon' = None
  /\ iter_idx' = 0
  /\ x_bs' = << >>
  /\ y_bs' = << >>
  /\ sum_of_grads_w' = None
  /\ sum_of_grads_b' = None
  /\ best_upper_bound' = None
  /\ best_upper' = NoBestLocals
  /\ current_lambda' = None
  /\ w' = None
  /\ b' = None
  /\ grad_w' = None
  /\ grad_b' = None
  /\ worst_margin' = None
  /\ worst_y_b' = 0
  /\ worst_x_b' = None
  /\ good_loss' = None
  /\ bad_loss' = None
  /\ total_loss' = None
  /\ params_norm_sq' = None
  /\ min_total' = None

\* get_projection_matrix is not being followed line by line
NoProjection == [ pc |-> "none" ]

\* The label-flip baseline script is not being run
NoFlip == [ pc |-> "none" ]

\* sample_lower_bound_attack is not being called on its own
NoAttack == [ pc |-> "none" ]

\* The two loops are not being run side by side
NoPair == [ pc |-> "none" ]

\* svm_with_rho_squared is not being called
NoSvm == [ pc |-> "none" ]

\* The Minimizer object is not being followed parameter by parameter
NoMinimizer == [ pc |-> "none" ]

\* The state after construction, for the clean datasets of the set data
InitOn(data) ==
  /\ impl \in {"cert_rda", "legacy"}
  /\ \E sc \in data, mi \in 1 .. MaxWork, ip \in InitParams, th \in 0 .. 1 :
     \E eps \in SeqsUpTo(EpsVals, MaxWork \div mi) \cup LongSweeps(sc, mi) :
     \E ord \in Enumerations(LabelSet(sc.Y)) :
       /\ impl = "legacy" => Len(eps) = 1
       /\ impl = "cert_rda" => ip.init_w = VZero(ip.init_w) /\ th = 0
       /\ cfg = [ sc |-> sc, max_iter |-> mi, num_iter_to_throw_out |-> th,
                  init_w |-> ip.init_w, init_b |-> ip.init_b,
                  epsilons |-> eps, labels |-> ord,
                  pipeline |-> << "defense", "classifier" >> ]
  /\ pc = "idle"
  /\ idx = 1
  /\ results = [ total_loss |-> [i \in DOMAIN cfg.epsilons |-> RZero],
                 good_loss |-> [i \in DOMAIN cfg.epsilons |-> RZero],
                 bad_loss |-> [i \in DOMAIN cfg.epsilons |-> RZero] ]
  /\ ret = None
  /\ self = NewUpperBound
  /\ writer = 0
  /\ self_at_call = NoRecord
  /\ loss_memo = {}
  /\ NoLocals
  /\ proj = NoProjection
  /\ minimizer = NoMinimizer
  /\ svm = NoSvm
  /\ flip = NoFlip
  /\ attack = NoAttack
  /\ pair = NoPair

Init == InitOn(Scenarios)

\* best_upper_bound = 10000
Sentinel == Int2Rat(10000)

\* np.zeros(self.x.shape[1]): zeros of the feature dimension, which the
\* defense geometry has as well (clean data may have no row)
FeatureZeros(sc) == VZero(sc.centroid_vec)

\* Lines 107-129 / 425-447: the locals both loops initialise
InitLocals(eps) ==
  /\ epsilon' = eps
  /\ iter_idx' = 0
  /\ x_bs' = [i \in 1 .. cfg.max_iter |-> FeatureZeros(cfg.sc)]
  /\ y_bs' = [i \in 1 .. cfg.max_iter |-> 0]
  /\ sum_of_grads_w' = FeatureZeros(cfg.sc)
  /\ sum_of_grads_b' = RZero
  /\ best_upper_bound' = Sentinel
  /\ current_lambda' = RootOfSquare(RDiv(ROne, cfg.sc.learning_rate))
  /\ w' = QConst(cfg.init_w)
  /\ b' = QConst(cfg.init_b)
  /\ min_total' = None
  /\ UNCHANGED << best_upper, grad_w, grad_b, worst_margin, worst_y_b,
                  worst_x_b, good_loss, bad_loss, total_loss, params_norm_sq >>

\* The statements of one loop iteration that assign locals only (lines
\* 142-196 and 214-225 / 460-520 and 547-557), given the oracle's answers
\* cand and the values gl, bl of the loss
IterLocals(cand, gl, bl, worst, gf, pns, tl, upd) ==
  /\ worst_margin' = worst.worst_margin
  /\ worst_y_b' = worst.worst_y_b
  /\ worst_x_b' = worst.worst_x_b
  /\ grad_w' = gf.grad_w
  /\ grad_b' = gf.grad_b
  /\ bad_loss' = Int2Rat(bl)
  /\ x_bs' = Store(x_bs, iter_idx, worst.worst_x_b)
  /\ y_bs' = Store(y_bs, iter_idx, worst.worst_y_b)
  /\ good_loss' = Int2Rat(gl)
  /\ params_norm_sq' = pns
  /\ total_loss' = tl
  /\ min_total' = IF min_total = None \/ RLT(tl, min_total) THEN tl ELSE min_total
  /\ sum_of_grads_w' = upd.sum_of_grads_w
  /\ sum_of_grads_b' = upd.sum_of_grads_b
  /\ current_lambda' = upd.current_lambda
  /\ w' = upd.w
  /\ b' = upd.b
  /\ iter_idx' = iter_idx + 1
  /\ loss_memo' = Remember(Remember(loss_memo, w, b, cfg.sc.X, cfg.sc.Y, gl),
                           w, b, << worst.worst_x_b >>, << worst.worst_y_b >>, bl)
  /\ UNCHANGED epsilon

\* ------------------------------------------------------------------------
\* UpperBound.certify / UpperBound.cert_rda
\* ------------------------------------------------------------------------
\* certify enters cert_rda for epsilons[idx]; cert_rda initialises its locals
CertRdaBegin ==
  /\ impl = "cert_rda"
  /\ pc = "idle"
  /\ idx <= Len(cfg.epsilons)
  /\ pc' = "loop"
  /\ InitLocals(cfg.epsilons[idx])
  /\ self_at_call' = self.best
  /\ UNCHANGED << flip, attack, pair, svm, minimizer, proj, impl, cfg, idx, results, ret, self, writer, loss_memo >>

\* One iteration of the loop of cert_rda in which every solve succeeds
CertRdaIter ==
  /\ impl = "cert_rda"
  /\ pc = "loop"
  /\ iter_idx < cfg.max_iter
  /\ cfg.labels # << >>
  /\ \E cand \in Candidates(cfg.sc, w) :
     \E g \in { hinge_grad(w, b, cfg.sc.X, cfg.sc.Y) } :
     \E worst \in { WorstCandidate(cfg.labels, cand, w, b) } :
     \E gf \in { FoldAttack(g, epsilon, worst) } :
     \E pns \in { ParamsNormSq(w, b) } :
     \E upd \in { DualAveragingUpdate(sum_of_grads_w, sum_of_grads_b, gf,
                                      current_lambda, cfg.sc.norm_sq_constraint) } :
     \E gl \in loss(loss_memo, w, b, cfg.sc.X, cfg.sc.Y),
        bl \in loss(loss_memo, w, b, << worst.worst_x_b >>, << worst.worst_y_b >>) :
     \E tl \in { TotalLoss(Int2Rat(gl), epsilon, Int2Rat(bl)) } :
       /\ IterLocals(cand, gl, bl, worst, gf, pns, tl, upd)
       /\ IF Improves(best_upper_bound, tl)
          THEN /\ self' = [self EXCEPT !.best =
                     [ best_upper_bound |-> tl,
                       best_upper_good_loss |-> Int2Rat(gl),
                       best_upper_bad_loss |-> Int2Rat(bl),
                       best_upper_params_norm_sq |-> pns,
                       best_upper_good_acc |-> GoodAcc(w, b, cfg.sc.X, cfg.sc.Y),
                       best_upper_bad_acc |-> BadAcc(worst.worst_margin) ]]
               /\ writer' = idx
          ELSE UNCHANGED << self, writer >>
  /\ UNCHANGED << flip, attack, pair, svm, minimizer, proj, impl, cfg, pc, idx, results, ret, self_at_call,
                  best_upper_bound, best_upper >>

\* Variant: the failure saves the trace collected so far in the object
CertRdaSolveFail_SavesTrace ==
  /\ impl = "cert_rda"
  /\ pc = "loop"
  /\ iter_idx < cfg.max_iter
  /\ cfg.labels # << >>
  /\ pc' = "error"
  /\ self' = [self EXCEPT !.x_c = x_bs, !.y_c = y_bs]
  /\ DropLocals
  /\ UNCHANGED << flip, attack, pair, svm, minimizer, proj, impl, cfg, idx, results, ret, writer, self_at_call, loss_memo >>

\* A solve of minimize_over_feasible_set yields no point: the exception
\* leaves cert_rda and certify, and the frame of cert_rda is gone
CertRdaSolveFail ==
  /\ impl = "cert_rda"
  /\ pc = "loop"
  /\ iter_idx < cfg.max_iter
  /\ cfg.labels # << >>
  /\ pc' = "error"
  /\ DropLocals
  /\ UNCHANGED << flip, attack, pair, svm, minimizer, proj, impl, cfg, idx, results, ret, self, writer, self_at_call, loss_memo >>

\* cert_rda saves the trace and returns; certify stores the triple (storing
\* None in a float array raises)
CertRdaReturn ==
  /\ impl = "cert_rda"
  /\ pc = "loop"
  /\ iter_idx = cfg.max_iter
  /\ self' = [self EXCEPT !.x_c = x_bs, !.y_c = y_bs]
  /\ ret' = << self.best.best_upper_bound, self.best.best_upper_good_acc,
               self.best.best_upper_bad_loss >>
  /\ IF None \in { ret'[1], ret'[2], ret'[3] }
     THEN /\ pc' = "error"
          /\ UNCHANGED << idx, results >>
     ELSE /\ results' = [ total_loss |-> [results.total_loss EXCEPT ![idx] = ret'[1]],
                          good_loss |-> [results.good_loss EXCEPT ![idx] = ret'[2]],
                          bad_loss |-> [results.bad_loss EXCEPT ![idx] = ret'[3]] ]
          /\ idx' = idx + 1
          /\ pc' = IF idx = Len(cfg.epsilons) THEN "done" ELSE "idle"
  /\ DropLocals
  /\ UNCHANGED << flip, attack, pair, svm, minimizer, proj, impl, cfg, writer, self_at_call, loss_memo >>

\* ------------------------------------------------------------------------
\* legacy: generate_upper_and_lower_bounds
\* ------------------------------------------------------------------------
\* The five locals best_upper_good_loss .. best_upper_bad_acc are assigned
Populated(rec) ==
  /\ rec.best_upper_good_loss # None
  /\ rec.best_upper_bad_loss # None
  /\ rec.best_upper_params_norm_sq # None
  /\ rec.best_upper_good_acc # None
  /\ rec.best_upper_bad_acc # None

LegacyBegin ==
  /\ impl = "legacy"
  /\ pc = "idle"
  /\ pc' = "loop"
  /\ InitLocals(cfg.epsilons[1])
  /\ UNCHANGED << flip, attack, pair, svm, minimizer, proj, impl, cfg, idx, results, ret, self, writer, self_at_call, loss_memo >>

LegacyIter ==
  /\ impl = "legacy"
  /\ pc = "loop"
  /\ iter_idx < cfg.max_iter
  /\ cfg.labels # << >>
  /\ \E cand \in Candidates(cfg.sc, w) :
     \E g \in { hinge_grad(w, b, cfg.sc.X, cfg.sc.Y) } :
     \E worst \in { WorstCandidate(cfg.labels, cand, w, b) } :
     \E gf \in { FoldAttack(g, epsilon, worst) } :
     \E pns \in { ParamsNormSq(w, b) } :
     \E upd \in { DualAveragingUpdate(sum_of_grads_w, sum_of_grads_b, gf,
                                      current_lambda, cfg.sc.norm_sq_constraint) } :
     \E gl \in loss(loss_memo, w, b, cfg.sc.X, cfg.sc.Y),
        bl \in loss(loss_memo, w, b, << worst.worst_x_b >>, << worst.worst_y_b >>) :
     \E tl \in { TotalLoss(Int2Rat(gl), epsilon, Int2Rat(bl)) } :
       /\ IterLocals(cand, gl, bl, worst, gf, pns, tl, upd)
       /\ IF Improves(best_upper_bound, tl)
          THEN /\ best_upper_bound' = tl
               /\ best_upper' =
                     [ best_upper_good_loss |-> Int2Rat(gl),
                       best_upper_bad_loss |-> Int2Rat(bl),
                       best_upper_params_norm_sq |-> pns,
                       best_upper_good_acc |-> GoodAcc(w, b, cfg.sc.X, cfg.sc.Y),
                       best_upper_bad_acc |-> BadAcc(worst.worst_margin) ]
          ELSE UNCHANGED << best_upper_bound, best_upper >>
  /\ UNCHANGED << flip, attack, pair, svm, minimizer, proj, impl, cfg, pc, idx, results, ret, self, writer, self_at_call >>

\* minimizer.minimize_over_feasible_set yields no point: the exception
\* leaves the function
LegacySolveFail ==
  /\ impl = "legacy"
  /\ pc = "loop"
  /\ iter_idx < cfg.max_iter
  /\ cfg.labels # << >>
  /\ pc' = "error"
  /\ DropLocals
  /\ UNCHANGED << flip, attack, pair, svm, minimizer, proj, impl, cfg, idx, results, ret, self, writer, self_at_call, loss_memo >>

\* np.round: to the nearest integer, halves to the even one (r >= 0)
Round(r) ==
  LET f == r.n \div r.d
      twice == 2 * (r.n - f * r.d)
  IN  IF twice < r.d THEN f
      ELSE IF twice > r.d THEN f + 1
      ELSE IF f % 2 = 0 THEN f ELSE f + 1

\* np.random.choice(num_iter, size, replace=False): whether it raises.  It
\* raises when asked for more than the population holds; a draw of nothing
\* from an empty population raises or not with the numpy release.
ChoiceRaises(num_iter, size) ==
  IF size > num_iter THEN { TRUE }
  ELSE IF num_iter <= 0 THEN { TRUE, FALSE }
  ELSE { FALSE }

\* Variant: the draw is made with replacement
IdxToSample_WithReplacement(num_iter, size, throw_out) ==
  IF size > num_iter THEN {}
  ELSE { [k \in 1 .. size |-> s[k] + throw_out] :
           s \in [1 .. size -> 0 .. (num_iter - 1)] }

\* np.random.choice(num_iter, size, replace=False) + num_iter_to_throw_out:
\* the samples it can draw, as 0-based trace indices; none if it raises
IdxToSample(num_iter, size, throw_out) ==
  IF size > num_iter THEN {}
  ELSE { [k \in 1 .. size |-> s[k] + throw_out] :
           s \in { t \in [1 .. size -> 0 .. (num_iter - 1)] :
                     \A i, j \in 1 .. size : i # j => t[i] # t[j] } }

sample_lower_bound_attack(X, Y, xb, yb, eps, throw_out) ==
  LET num_iter == Len(xb) - throw_out
      size     == Round(RMul(eps, Int2Rat(Len(X))))
  IN  { [ X_modified |-> X \o [k \in 1 .. size |-> xb[s[k] + 1]],
          Y_modified |-> Y \o [k \in 1 .. size |-> yb[s[k] + 1]],
          idx_train  |-> << 0, Len(X) >>,
          idx_poison |-> << Len(X), Len(X) + size >>,
          idx_to_sample |-> s ] :
          s \in IdxToSample(num_iter, size, throw_out) }

\* After the loop: sample the lower-bound attack and return; the sampling
\* raises when it cannot draw, the return statement raises when the locals
\* of the record were never assigned
LegacyReturn ==
  /\ impl = "legacy"
  /\ pc = "loop"
  /\ iter_idx = cfg.max_iter
  /\ \E samples \in { sample_lower_bound_attack(cfg.sc.X, cfg.sc.Y, x_bs, y_bs,
                                                epsilon, cfg.num_iter_to_throw_out) },
        raised \in ChoiceRaises(Len(x_bs) - cfg.num_iter_to_throw_out,
                                Round(RMul(epsilon, Int2Rat(Len(cfg.sc.X))))) :
       IF raised \/ ~Populated(best_upper)
       THEN /\ pc' = "error"
            /\ UNCHANGED ret
       ELSE /\ pc' = "done"
            /\ \E smp \in samples :
                 ret' = [ sample |-> smp,
                          best_upper_bound |-> best_upper_bound,
                          best_upper_good_loss |-> best_upper.best_upper_good_loss,
                          best_upper_bad_loss |-> best_upper.best_upper_bad_loss,
                          best_upper_good_acc |-> best_upper.best_upper_good_acc,
                          best_upper_bad_acc |-> best_upper.best_upper_bad_acc,
                          best_upper_params_norm_sq |->
                             best_upper.best_upper_params_norm_sq ]
  /\ DropLocals
  /\ UNCHANGED << flip, attack, pair, svm, minimizer, proj, impl, cfg, idx, results, self, writer, self_at_call, loss_memo >>

\* ------------------------------------------------------------------------
\* UpperBound.__init__, from the call of the constructor
\* ------------------------------------------------------------------------
\* Most stages a pipeline of the model reports
MaxStages == 3

\* The 'type' entries of the stages pipeline.cert_params() can report
StageTypes == { "defense", "classifier", "other" }

Pipelines == UNION { [1 .. n -> StageTypes] : n \in 0 .. MaxStages }

\* Variant: only the number of stages is verified
ValidPipeline_CountOnly(cert_params) == Len(cert_params) = 2

\* assert len(cert_params) == 2; assert cert_params[0]['type'] == 'defense';
\* assert cert_params[1]['type'] == 'classifier'
ValidPipeline(cert_params) ==
  /\ Len(cert_params) = 2
  /\ cert_params[1] = "defense"
  /\ cert_params[2] = "classifier"

\* Before __init__ has assigned them, the object has none of the fields
NoObject == None

\* The constructor is called with the inputs cfg; the object does not exist
InitConstruct ==
  /\ impl = "cert_rda"
  /\ \E sc \in Scenarios, mi \in 1 .. MaxWork, cp \in Pipelines :
     \E eps \in SeqsUpTo(EpsVals, MaxWork \div mi) :
     \E ord \in Enumerations(LabelSet(sc.Y)) :
       cfg = [ sc |-> sc, max_iter |-> mi, num_iter_to_throw_out |-> 0,
               init_w |-> VZero(sc.X[1]), init_b |-> RZero,
               epsilons |-> eps, labels |-> ord, pipeline |-> cp ]
  /\ pc = "new"
  /\ idx = 1
  /\ results = [ total_loss |-> [i \in DOMAIN cfg.epsilons |-> RZero],
                 good_loss |-> [i \in DOMAIN cfg.epsilons |-> RZero],
                 bad_loss |-> [i \in DOMAIN cfg.epsilons |-> RZero] ]
  /\ ret = None
  /\ self = NoObject
  /\ writer = 0
  /\ self_at_call = NoRecord
  /\ loss_memo = {}
  /\ NoLocals
  /\ proj = NoProjection
  /\ minimizer = NoMinimizer
  /\ svm = NoSvm
  /\ flip = NoFlip
  /\ attack = NoAttack
  /\ pair = NoPair

\* UpperBound.__init__: the asserts on cert_params() raise, or the fields of
\* the object are assigned
Construct ==
  /\ pc = "new"
  /\ IF ValidPipeline(cfg.pipeline)
     THEN pc' = "idle" /\ self' = NewUpperBound
     ELSE pc' = "error" /\ UNCHANGED self
  /\ UNCHANGED << flip, attack, pair, svm, minimizer, proj, impl, cfg, idx, results, ret, writer, self_at_call,
                  loss_memo, loopVars >>

NextConstruct ==
  \/ Construct
  \/ CertRdaBegin
  \/ CertRdaIter
  \/ CertRdaSolveFail
  \/ CertRdaReturn

SpecConstruct == InitConstruct /\ [][NextConstruct]_vars

\* ------------------------------------------------------------------------
\* Clean data without any row
\* ------------------------------------------------------------------------
\* The empty dataset; the geometry of the defense is never consulted for it
NoData ==
  [ X |-> << >>,
    Y |-> << >>,
    class_map |-> [y \in {-1, 1} |-> IF y = -1 THEN 1 ELSE 2],
    centroids |-> << Pt(-1, 0, 0), Pt(1, 0, 0) >>,
    centroid_vec |-> Pt(2, 0, 0),
    sphere_radii |-> << Int2Rat(1), Int2Rat(1) >>,
    slab_radii |-> << Int2Rat(2), Int2Rat(2) >>,
    norm_sq_constraint |-> Int2Rat(1),
    learning_rate |-> Int2Rat(1) ]

InitAnyData == InitOn(Scenarios \cup { NoData })

\* cert_rda, lines 155-171: set(self.y) is empty, the loop over the labels
\* has no pass, worst_margin is still None and "worst_margin < 1" raises
CertRdaNoCandidate ==
  /\ impl = "cert_rda"
  /\ pc = "loop"
  /\ iter_idx < cfg.max_iter
  /\ cfg.labels = << >>
  /\ pc' = "error"
  /\ DropLocals
  /\ UNCHANGED << flip, attack, pair, svm, minimizer, proj, impl, cfg, idx, results, ret, self, writer, self_at_call, loss_memo >>

\* legacy, lines 472-494: the same
LegacyNoCandidate ==
  /\ impl = "legacy"
  /\ pc = "loop"
  /\ iter_idx < cfg.max_iter
  /\ cfg.labels = << >>
  /\ pc' = "error"
  /\ DropLocals
  /\ UNCHANGED << flip, attack, pair, svm, minimizer, proj, impl, cfg, idx, results, ret, self, writer, self_at_call, loss_memo >>

Next ==
  \/ CertRdaBegin
  \/ CertRdaIter
  \/ CertRdaSolveFail
  \/ CertRdaReturn
  \/ LegacyBegin
  \/ LegacyIter
  \/ LegacySolveFail
  \/ LegacyReturn

Spec == Init /\ [][Next]_vars

NextAnyData == Next \/ CertRdaNoCandidate \/ LegacyNoCandidate

SpecAnyData == InitAnyData /\ [][NextAnyData]_vars

\* ------------------------------------------------------------------------
\* Shape of the state
\* ------------------------------------------------------------------------
TypeOK ==
  /\ impl \in {"cert_rda", "legacy"}
  /\ pc \in {"idle", "loop", "done", "error"}
  /\ iter_idx \in 0 .. cfg.max_iter
  /\ idx \in 1 .. (Len(cfg.epsilons) + 1)
  /\ pc = "loop" => /\ w.lam = b.lam
                    /\ Len(x_bs) = cfg.max_iter
                    /\ Len(y_bs) = cfg.max_iter
  /\ pc # "loop" => NoLocals

\* ------------------------------------------------------------------------
\* Properties
\* ------------------------------------------------------------------------
\* A step that runs one loop iteration
IterStep == pc = "loop" /\ iter_idx' = iter_idx + 1

\* All iterations of the current run are done, the run has not returned yet
LoopDone == pc = "loop" /\ iter_idx = cfg.max_iter

\* certify has just stored the result of cert_rda for epsilons[idx - 1]
JustReturned == impl = "cert_rda" /\ pc \in {"idle", "done"} /\ idx > 1

\* C1: in cert_rda, once some iteration's total loss is below the initial
\* bound, self.best_upper_bound is the least total loss of the iterations run
\* so far (so it never increases and is at most the last total loss).
C1_BestIsMinimum ==
  (impl = "cert_rda" /\ pc = "loop" /\ iter_idx > 0 /\ RLT(min_total, Sentinel))
    => self.best.best_upper_bound = min_total

\* C2: the triple certify stores for an epsilon is (total loss, clean loss,
\* adversarial loss) of the best-bound record.
C2_ReturnsLosses ==
  JustReturned =>
    /\ results.total_loss[idx - 1] = self.best.best_upper_bound
    /\ results.good_loss[idx - 1] = self.best.best_upper_good_loss
    /\ results.bad_loss[idx - 1] = self.best.best_upper_bad_loss

\* C3: the record returned for epsilons[i] was written while processing
\* epsilons[i], and every run starts from the initial loop state.
C3_NoSharedState ==
  /\ JustReturned => writer = idx - 1
  /\ (impl = "cert_rda" /\ pc = "loop" /\ iter_idx = 0) =>
       /\ w = QConst(VZero(cfg.sc.X[1]))
       /\ b = QConst(RZero)
       /\ sum_of_grads_w = VZero(cfg.sc.X[1])
       /\ sum_of_grads_b = RZero
       /\ current_lambda = RootOfSquare(RDiv(ROne, cfg.sc.learning_rate))

\* C4: a run that completed all its iterations returns a record whose six
\* fields were all assigned during this run.
C4_FullyPopulated ==
  /\ (impl = "cert_rda" /\ LoopDone) =>
       /\ \A f \in DOMAIN self.best : self.best[f] # None
       /\ writer = idx
  /\ (impl = "legacy" /\ LoopDone) =>
       /\ RLT(best_upper_bound, Sentinel)
       /\ Populated(best_upper)

\* C5: after cert_rda aborted with an error, the best-bound fields of the
\* object are those it had when the call began.
C5_NoPartialRecord ==
  (impl = "cert_rda" /\ pc = "error") => self.best = self_at_call

\* The scale both loops start from: current_lambda = 1 / learning_rate
InitialLambda == RootOfSquare(RDiv(ROne, cfg.sc.learning_rate))

\* The accumulator z divided by the current scale equals the parameters
ParamsAreScaledSums ==
  /\ QVecEq(w, QDiv(sum_of_grads_w, current_lambda))
  /\ QEq(b, QDiv(sum_of_grads_b, current_lambda))

\* ||w||^2 + b^2 <= norm_sq_constraint for the current parameters
NormWithinConstraint == RLE(ParamsNormSq(w, b), cfg.sc.norm_sq_constraint)

\* The starting parameters are zero (always so in cert_rda)
ZeroStart == cfg.init_w = VZero(cfg.init_w) /\ cfg.init_b = RZero

\* C6: in both loops current_lambda is never below 1 / learning_rate, and
\* an iteration leaves it at the larger of its previous value and
\* candidate_lambda = ||(sum_of_grads_w, sum_of_grads_b)|| /
\* sqrt(norm_sq_constraint), so it never decreases.
C6_LambdaRatchet ==
  /\ [](pc = "loop" => ~RootGT(InitialLambda, current_lambda))
  /\ [][IterStep =>
          LET candidate == CandidateLambda(sum_of_grads_w', sum_of_grads_b',
                                           cfg.sc.norm_sq_constraint)
          IN  /\ ~RootGT(current_lambda, current_lambda')
              /\ ~RootGT(candidate, current_lambda')
              /\ current_lambda' \in { current_lambda, candidate }]_vars

\* An iteration has raised the scale above 1 / learning_rate
C6_Witness ==
  pc = "loop" /\ iter_idx > 0 /\ RootGT(current_lambda, InitialLambda)

C9_FirstSmallestMargin ==
  [][IterStep =>
       \E cand \in Candidates(cfg.sc, w) :
       \E k \in DOMAIN cfg.labels :
         /\ worst_y_b' = cfg.labels[k]
         /\ worst_x_b' = cand[cfg.labels[k]]
         /\ worst_margin' = Margin(worst_y_b', worst_x_b', w, b)
         /\ \A y \in LabelSet(cfg.sc.Y) :
              ~QLT(Margin(y, cand[y], w, b), worst_margin')
         /\ \A j \in 1 .. (k - 1) :
              QLT(worst_margin', Margin(cfg.labels[j], cand[cfg.labels[j]], w, b))]_vars

\* Two labels whose candidates tie at margin 0: the label enumerated first
\* (here 1, enumerated before -1) is the one selected
C9_Witness ==
  /\ pc = "loop" /\ iter_idx = 1 /\ ZeroStart
  /\ cfg.labels = << 1, -1 >>
  /\ QEq(worst_margin, QConst(RZero))
  /\ worst_y_b = 1
  /\ y_bs[iter_idx] = 1

\* C10: the gradient an iteration uses in its update is the gradient of the
\* loss on the clean data minus epsilon * worst_y_b * worst_x_b (and minus
\* epsilon * worst_y_b for the bias) when the worst margin is below 1, and
\* the gradient on the clean data unchanged when the worst margin is 1 or more.
C10_FoldIffBelowOne ==
  [][IterStep =>
       LET g == hinge_grad(w, b, cfg.sc.X, cfg.sc.Y)
           below == QLT(worst_margin', QConst(ROne))
       IN  /\ below =>
                /\ grad_w' = VSub(g.grad_w,
                                  VScale(RMul(epsilon, Int2Rat(worst_y_b')), worst_x_b'))
                /\ grad_b' = RSub(g.grad_b, RMul(epsilon, Int2Rat(worst_y_b')))
           /\ ~below => (grad_w' = g.grad_w /\ grad_b' = g.grad_b)
           /\ sum_of_grads_w' = VSub(sum_of_grads_w, grad_w')]_vars

\* With epsilon > 0 the worst margin was exactly 1 and the attack point has a
\* nonzero feature vector
C10_Witness ==
  /\ pc = "loop" /\ iter_idx > 0
  /\ RLT(RZero, epsilon)
  /\ QEq(worst_margin, QConst(ROne))
  /\ worst_x_b # VZero(worst_x_b)

\* The point x lies in the sphere and in the slab of the class of label y
InSphereAndSlab(sc, y, x) ==
  LET k == sc.class_map[y]
      d == VSub(x, sc.centroids[k])
      p == Dot(sc.centroid_vec, d)
  IN  /\ RLE(NormSq(d), RMul(sc.sphere_radii[k], sc.sphere_radii[k]))
      /\ RLE(p, sc.slab_radii[k])
      /\ RLE(RSub(RZero, sc.slab_radii[k]), p)

C12_ZeroEpsilonBoundIsCleanLoss ==
  /\ (impl = "cert_rda" /\ LoopDone /\ epsilon = RZero) =>
       self.best.best_upper_bound = self.best.best_upper_good_loss
  /\ (impl = "legacy" /\ LoopDone /\ epsilon = RZero /\ Populated(best_upper)) =>
       best_upper_bound = best_upper.best_upper_good_loss
  /\ (JustReturned /\ cfg.epsilons[idx - 1] = RZero) =>
       results.total_loss[idx - 1] = results.good_loss[idx - 1]

\* cert_params() is exactly the two stages 'defense', 'classifier'
DefenseThenClassifier == cfg.pipeline = << "defense", "classifier" >>

\* C13: for a pipeline whose cert_params() is not exactly the two stages
\* 'defense', 'classifier' in this order, the constructor ends in an error:
\* no field of the object is ever assigned, no loop is entered, no local of
\* a run exists and no result is stored.
C13_BadPipelineRejected ==
  /\ [](~DefenseThenClassifier =>
          /\ pc \in { "new", "error" }
          /\ self = NoObject
          /\ NoLocals
          /\ writer = 0
          /\ idx = 1)
  /\ [][(pc = "new" /\ ~DefenseThenClassifier) => pc' = "error"]_vars

\* The constructor has rejected a pipeline of two stages in the wrong order
C13_Witness ==
  /\ pc = "error"
  /\ cfg.pipeline = << "classifier", "defense" >>
  /\ self = NoObject

\* A step in which a solve of the current iteration yields no point
SolveFailStep == pc = "loop" /\ iter_idx < cfg.max_iter /\ pc' = "error"

\* C14: when a solve yields no point the run ends in an error at that
\* iteration: the iteration is not counted, nothing is evaluated, stored in
\* the results or saved in the object (no trace, no record), the locals of
\* the run (trace, gradient, accumulators) are gone, and no step follows.
C14_SolveFailureAborts ==
  /\ [][SolveFailStep =>
          /\ self' = self
          /\ results' = results
          /\ ret' = ret
          /\ idx' = idx
          /\ loss_memo' = loss_memo
          /\ writer' = writer
          /\ x_bs' = << >> /\ y_bs' = << >>
          /\ grad_w' = None /\ sum_of_grads_w' = None /\ w' = None]_vars
  /\ [][pc = "error" => FALSE]_vars
  /\ [][(pc = "loop" /\ iter_idx < cfg.max_iter /\ pc' = "loop") =>
          x_bs'[iter_idx + 1] \in Feasible(cfg.sc, y_bs'[iter_idx + 1])]_vars

\* cert_rda has failed in the first run after an iteration that wrote the
\* record; no trace was saved
C14_Witness ==
  /\ impl = "cert_rda" /\ pc = "error"
  /\ idx = 1 /\ writer = 1
  /\ self.x_c = None
  /\ self.best.best_upper_bound # None

\* ------------------------------------------------------------------------
\* get_projection_matrix (legacy lines 598-623), followed line by line.
\* scipy.linalg.orth returns an orthonormal basis of the span of the rows it
\* is given, so P is represented by P.shape[0], the dimension of that span.
\* ------------------------------------------------------------------------

\* Largest feature dimension D of the inputs of get_projection_matrix
MaxDim == 3

\* The vectors of dimension D given as w, centroid and centroid_vec (integer
\* coordinates)
ProjVecs(D) == [1 .. D -> { 0, 1 }]

RECURSIVE IntDotUpTo(_, _, _)
IntDotUpTo(u, v, k) ==
  IF k = 0 THEN 0 ELSE IntDotUpTo(u, v, k - 1) + u[k] * v[k]

\* Determinant of the Gram matrix of the vectors of s picked by the indices
\* of pick (1 for the empty pick)
GramDet(s, pick) ==
  LET g(i, j) == IntDotUpTo(s[pick[i]], s[pick[j]], Len(s[1]))
  IN  CASE Len(pick) = 0 -> 1
        [] Len(pick) = 1 -> g(1, 1)
        [] Len(pick) = 2 -> g(1, 1) * g(2, 2) - g(1, 2) * g(2, 1)
        [] OTHER ->
               g(1, 1) * (g(2, 2) * g(3, 3) - g(2, 3) * g(3, 2))
             - g(1, 2) * (g(2, 1) * g(3, 3) - g(2, 3) * g(3, 1))
             + g(1, 3) * (g(2, 1) * g(3, 2) - g(2, 2) * g(3, 1))

\* orth(subspace.T).T has as many rows as the span of the rows of subspace
\* has dimensions: the size of the largest independent subfamily
OrthRows(s) ==
  LET picks == { << >>, << 1 >>, << 2 >>, << 3 >>, << 1, 2 >>, << 1, 3 >>,
                 << 2, 3 >>, << 1, 2, 3 >> }
      free  == { p \in picks : GramDet(s, p) # 0 }
  IN  CHOOSE k \in 0 .. 3 :
        /\ \E p \in free : Len(p) = k
        /\ \A p \in free : Len(p) <= k

\* A certifier that is constructed and not running, on fixed clean data
CertifierAtRest ==
  /\ impl = "legacy"
  /\ \E sc \in { CHOOSE s \in Scenarios : TRUE } :
       /\ cfg = [ sc |-> sc, max_iter |-> 1, num_iter_to_throw_out |-> 0,
                  init_w |-> VZero(sc.X[1]), init_b |-> RZero,
                  epsilons |-> << RZero >>,
                  labels |-> CHOOSE ord \in Enumerations(LabelSet(sc.Y)) : TRUE,
                  pipeline |-> << "defense", "classifier" >> ]
  /\ pc = "idle"
  /\ idx = 1
  /\ results = [ total_loss |-> << RZero >>, good_loss |-> << RZero >>,
                 bad_loss |-> << RZero >> ]
  /\ ret = None
  /\ self = NewUpperBound
  /\ writer = 0
  /\ self_at_call = NoRecord
  /\ loss_memo = {}
  /\ NoLocals

\* The caller passes three vectors of one dimension D >= 1
InitProjection ==
  /\ \E D \in 1 .. MaxDim :
     \E pw \in ProjVecs(D), c \in ProjVecs(D), cv \in ProjVecs(D) :
       proj = [ pc |-> "orth", D |-> D, subspace |-> << pw, c, cv >>,
                rows |-> 0 ]
  /\ CertifierAtRest
  /\ minimizer = NoMinimizer
  /\ svm = NoSvm
  /\ flip = NoFlip
  /\ attack = NoAttack
  /\ pair = NoPair

\* What get_projection_matrix leaves alone
certifierVars ==
  << impl, cfg, pc, idx, results, ret, self, writer, self_at_call, loss_memo,
     loopVars >>

\* Line 618: P = orth(subspace.T).T
ProjOrth ==
  /\ proj.pc = "orth"
  /\ \E rows \in { OrthRows(proj.subspace) } :
       proj' = [proj EXCEPT !.pc = "while", !.rows = rows]
  /\ UNCHANGED << flip, attack, pair, svm, minimizer, certifierVars >>

\* Line 619: while P.shape[0] < 3, and line 623: return P
ProjWhile ==
  /\ proj.pc = "while"
  /\ proj' = [proj EXCEPT !.pc = IF proj.rows < 3 THEN "pad" ELSE "return"]
  /\ UNCHANGED << flip, attack, pair, svm, minimizer, certifierVars >>

\* Lines 620-621 when the random row is outside the span of the rows of P
\* (the outcome of probability one while the span is not the whole space)
ProjPadOutside ==
  /\ proj.pc = "pad"
  /\ proj.rows < proj.D
  /\ proj' = [proj EXCEPT !.pc = "while", !.rows = proj.rows + 1]
  /\ UNCHANGED << flip, attack, pair, svm, minimizer, certifierVars >>

\* Lines 620-621 when the random row is inside the span of the rows of P:
\* orth drops it again
ProjPadInside ==
  /\ proj.pc = "pad"
  /\ proj' = [proj EXCEPT !.pc = "while"]
  /\ UNCHANGED << flip, attack, pair, svm, minimizer, certifierVars >>

NextProjection == ProjOrth \/ ProjWhile \/ ProjPadOutside \/ ProjPadInside

\* Every line is eventually executed, and a random row that can fall outside
\* the span infinitely often eventually does
SpecProjection ==
  /\ InitProjection
  /\ [][NextProjection]_vars
  /\ WF_vars(NextProjection)
  /\ SF_vars(ProjPadOutside)

\* C15: for every feature dimension D >= 1 and every input triple
\* get_projection_matrix terminates and returns exactly 3 rows: the padding
\* loop reaches 3 rows after finitely many rounds.
C15_ProjectionTerminates == <>(proj.pc = "return" /\ proj.rows = 3)

\* The same for the dimensions D >= 3 only
ProjectionTerminatesFromThree == proj.D >= 3 ~> (proj.pc = "return" /\ proj.rows = 3)

\* C16: a label with no member in the clean labels is skipped in the
\* worst-margin search (the labels queried in an iteration are the distinct
\* labels present, each once, and the attack point carries one of them); with
\* no clean label at all the run stops with an error and no attack point is
\* folded, recorded or evaluated.
C16_AbsentLabelsSkipped ==
  /\ [](/\ \A i \in DOMAIN cfg.labels : \E j \in DOMAIN cfg.sc.Y :
              cfg.sc.Y[j] = cfg.labels[i]
        /\ \A j \in DOMAIN cfg.sc.Y : \E i \in DOMAIN cfg.labels :
              cfg.labels[i] = cfg.sc.Y[j]
        /\ \A i, j \in DOMAIN cfg.labels :
              cfg.labels[i] = cfg.labels[j] => i = j)
  /\ [][IterStep =>
          /\ \E j \in DOMAIN cfg.sc.Y : cfg.sc.Y[j] = worst_y_b'
          /\ y_bs'[iter_idx + 1] = worst_y_b']_vars
  /\ [](cfg.sc.Y = << >> =>
          /\ pc \in {"idle", "loop", "error"}
          /\ iter_idx = 0
          /\ worst_x_b = None /\ worst_y_b = 0 /\ worst_margin = None
          /\ grad_w = None /\ bad_loss = None /\ total_loss = None
          /\ self = NewUpperBound /\ best_upper = NoBestLocals
          /\ loss_memo = {} /\ ret = None /\ idx = 1)
  /\ [][(cfg.sc.Y = << >> /\ pc = "loop") => pc' = "error"]_vars

C16_Witness ==
  /\ pc = "error"
  /\ cfg.sc.Y = << >>
  /\ cfg.max_iter = 2
  /\ self = NewUpperBound

\* ------------------------------------------------------------------------
\* legacy Minimizer (lines 626-724), followed parameter by parameter.  The
\* value of a cvx parameter or variable is << >> while unset and << v >>
\* once set; the problem is written in the coordinates of the feature space
\* (the projection P is an isometry onto a space that holds w, centroid and
\* centroid_vec).
\* ------------------------------------------------------------------------

\* Arguments a caller can pass to Minimizer.minimize_over_feasible_set
SolveArgs ==
  [ y : { -1, 1 },
    w : { QConst(Pt(0, 0, 0)), QConst(Pt(1, 0, 0)), QConst(Pt(-1, 1, 0)) },
    centroid : { Pt(-1, 0, 0), Pt(1, 0, 0) },
    centroid_vec : { Pt(2, 0, 0) },
    sphere_radius : { Int2Rat(-1), Int2Rat(1), Int2Rat(2) },
    slab_radius : { Int2Rat(2) } ]

\* Minimizer.__init__ (lines 650-681): no parameter has a value yet.  args,
\* out and raised describe the latest call, prev the arguments of the call
\* before it (history).
NewMinimizer ==
  [ pc |-> "ready", cvx_y |-> << >>, cvx_w |-> << >>, cvx_centroid |-> << >>,
    cvx_centroid_vec |-> << >>, cvx_sphere_radius |-> << >>,
    cvx_slab_radius |-> << >>, cvx_x |-> << >>,
    args |-> << >>, out |-> << >>, raised |-> FALSE, prev |-> << >> ]

\* Variant: the sphere radius is assigned only while it has no value
SetParameters_KeepsRadius(m, a) ==
  [m EXCEPT !.cvx_y = << a.y >>, !.cvx_w = << a.w >>,
            !.cvx_centroid = << a.centroid >>,
            !.cvx_centroid_vec = << a.centroid_vec >>,
            !.cvx_sphere_radius = IF m.cvx_sphere_radius = << >>
                                  THEN << a.sphere_radius >>
                                  ELSE m.cvx_sphere_radius,
            !.cvx_slab_radius = << a.slab_radius >>]

\* Lines 713-718: every parameter of the problem is assigned from the
\* arguments of the call
SetParameters(m, a) ==
  [m EXCEPT !.cvx_y = << a.y >>, !.cvx_w = << a.w >>,
            !.cvx_centroid = << a.centroid >>,
            !.cvx_centroid_vec = << a.centroid_vec >>,
            !.cvx_sphere_radius = << a.sphere_radius >>,
            !.cvx_slab_radius = << a.slab_radius >>]

\* The defense geometry of one class, as minimize_over_feasible_set reads it
Geometry(y, centroid, centroid_vec, sphere_radius, slab_radius) ==
  [ class_map |-> [c \in { y } |-> 1],
    centroids |-> << centroid >>,
    centroid_vec |-> centroid_vec,
    sphere_radii |-> << sphere_radius >>,
    slab_radii |-> << slab_radius >> ]

\* Line 720, self.prob.solve: the optimal points of the problem the
\* parameters describe
SolveProblem(m) ==
  minimize_over_feasible_set(
    Geometry(m.cvx_y[1], m.cvx_centroid[1], m.cvx_centroid_vec[1],
             m.cvx_sphere_radius[1], m.cvx_slab_radius[1]),
    m.cvx_y[1], m.cvx_w[1])

InitMinimizer ==
  /\ minimizer = NewMinimizer
  /\ svm = NoSvm
  /\ flip = NoFlip
  /\ attack = NoAttack
  /\ pair = NoPair
  /\ proj = NoProjection
  /\ CertifierAtRest

\* One call of Minimizer.minimize_over_feasible_set (lines 686-724): the
\* parameters are set, the problem is solved, and either the variable gets
\* an optimal point, which is returned, or it gets no value and
\* np.array(None).reshape(-1).dot(P) raises
MinimizerCall ==
  /\ minimizer.pc = "ready"
  /\ \E a \in SolveArgs :
     \E m \in { SetParameters(minimizer, a) } :
     \E opt \in { SolveProblem(m) } :
       IF opt = { }
       THEN minimizer' = [m EXCEPT !.cvx_x = << >>, !.args = << a >>,
                                   !.out = << >>, !.raised = TRUE,
                                   !.prev = minimizer.args]
       ELSE \E x \in opt :
              minimizer' = [m EXCEPT !.cvx_x = << x >>, !.args = << a >>,
                                     !.out = << x >>, !.raised = FALSE,
                                     !.prev = minimizer.args]
  /\ UNCHANGED << flip, attack, pair, svm, proj, certifierVars >>

NextMinimizer == MinimizerCall

SpecMinimizer == InitMinimizer /\ [][NextMinimizer]_vars

\* The optimal points for the arguments a, computed from a alone
OptimalFor(a) ==
  LET inside == { x \in Grid :
                    /\ RLE(RZero, a.sphere_radius)
                    /\ RLE(NormSq(VSub(x, a.centroid)),
                           RMul(a.sphere_radius, a.sphere_radius))
                    /\ RLE(Dot(a.centroid_vec, VSub(x, a.centroid)), a.slab_radius)
                    /\ RLE(RSub(RZero, a.slab_radius),
                           Dot(a.centroid_vec, VSub(x, a.centroid))) }
      value(x) == RMul(Int2Rat(a.y), Dot(a.w.num, x))
  IN  { x \in inside : \A x2 \in inside : RLE(value(x), value(x2)) }

MaxTrials == 3

\* rho_sq_tol = 0.01
rho_sq_tol == Rat(1, 100)

\* 1e-5, in thousandths
WdEps == Rat(1, 100)

\* Values of the argument weight_decay, in thousandths (None, 0.001, 1.0)
WeightDecayArgs == { None, Int2Rat(1), Int2Rat(1000) }

\* Values of the argument upper_params_norm_sq
NormTargets == { None, Int2Rat(1) }

\* Squared norms np.linalg.norm(params)**2 + bias**2 a fit can have
NormVals ==
  { Rat(1, 2), Rat(199, 200), Int2Rat(1), Rat(201, 200), Rat(3, 2) }

Midpoint(lo, hi) == RDiv(RAdd(hi, lo), Int2Rat(2))

\* Lines 174-188
InitSvm ==
  /\ \E target \in NormTargets, wd \in WeightDecayArgs :
       LET lower_wd_bound == Int2Rat(1)
           upper == IF wd = None THEN Int2Rat(256000)
                    ELSE RSub(RMul(Int2Rat(2), wd), lower_wd_bound)
           upper_wd_bound == IF RLT(upper, lower_wd_bound)
                             THEN lower_wd_bound ELSE upper
       IN  svm = [ pc |-> "while",
                   upper_params_norm_sq |-> target,
                   params_norm_sq |-> None,
                   lower_wd_bound |-> lower_wd_bound,
                   upper_wd_bound |-> upper_wd_bound,
                   lower_weight_decay |-> lower_wd_bound,
                   upper_weight_decay |-> upper_wd_bound,
                   weight_decay |-> Midpoint(lower_wd_bound, upper_wd_bound),
                   trials |-> 0,
                   exit |-> "none" ]
  /\ minimizer = NoMinimizer
  /\ proj = NoProjection
  /\ flip = NoFlip
  /\ attack = NoAttack
  /\ pair = NoPair
  /\ CertifierAtRest

\* (upper_params_norm_sq > params_norm_sq) or
\* (np.abs(upper_params_norm_sq - params_norm_sq) > rho_sq_tol)
NotThereYet(target, norm) ==
  IF RLT(norm, target) THEN TRUE
  ELSE LET diff == RSub(target, norm)
       IN  RLT(rho_sq_tol, IF diff.n < 0 THEN RSub(RZero, diff) ELSE diff)

\* Lines 190-193: the condition of the while loop
LoopCondition(s) ==
  IF s.params_norm_sq = None THEN TRUE
  ELSE NotThereYet(s.upper_params_norm_sq, s.params_norm_sq)

\* Lines 195-239: one pass of the loop, a fit of squared norm norm
SvmTrial ==
  /\ svm.pc = "while"
  /\ LoopCondition(svm)
  /\ svm.trials < MaxTrials
  /\ \E norm \in NormVals :
     \E s \in { [svm EXCEPT !.params_norm_sq = norm, !.trials = @ + 1] } :
       IF s.upper_params_norm_sq = None
       THEN svm' = [s EXCEPT !.pc = "return", !.exit = "no target"]
       ELSE IF RLT(norm, s.upper_params_norm_sq)
       THEN IF RLT(s.weight_decay, RAdd(s.lower_wd_bound, WdEps))
            THEN svm' = [s EXCEPT !.upper_weight_decay = s.weight_decay,
                                  !.pc = "return", !.exit = "gave up"]
            ELSE svm' = [s EXCEPT !.upper_weight_decay = s.weight_decay,
                                  !.weight_decay =
                                     Midpoint(s.lower_weight_decay, s.weight_decay)]
       ELSE \E bump \in { RLT(RSub(s.upper_wd_bound, WdEps), s.weight_decay) } :
            \E hi \in { IF bump THEN RMul(Int2Rat(2), s.upper_weight_decay)
                        ELSE s.upper_weight_decay } :
              svm' = [s EXCEPT !.lower_weight_decay = s.weight_decay,
                               !.upper_wd_bound =
                                  IF bump THEN RMul(Int2Rat(2), @) ELSE @,
                               !.upper_weight_decay = hi,
                               !.weight_decay =
                                  IF NotThereYet(s.upper_params_norm_sq, norm)
                                  THEN Midpoint(s.weight_decay, hi)
                                  ELSE @]
  /\ UNCHANGED << flip, attack, pair, minimizer, proj, certifierVars >>

\* Lines 190-193 and 241-256: the condition of the loop is false, the
\* function evaluates the last fit and returns it
SvmReturn ==
  /\ svm.pc = "while"
  /\ ~LoopCondition(svm)
  /\ svm' = [svm EXCEPT !.pc = "return", !.exit = "condition"]
  /\ UNCHANGED << flip, attack, pair, minimizer, proj, certifierVars >>

NextSvm == SvmTrial \/ SvmReturn

SpecSvm == InitSvm /\ [][NextSvm]_vars

\* The search ended through the condition of the loop
EndedByCondition == svm.pc = "return" /\ svm.exit = "condition"

\* C18: with a target upper_params_norm_sq, a search that ends through the
\* loop condition returns parameters whose squared norm is no larger than
\* the target and within rho_sq_tol of it; and throughout the search
\* lower_weight_decay <= weight_decay <= upper_weight_decay, each new trial
\* value being the midpoint of the bracket.
C18_NormNoLargerThanTarget ==
  /\ [](EndedByCondition =>
          /\ RLE(svm.params_norm_sq, svm.upper_params_norm_sq)
          /\ RLE(RSub(svm.upper_params_norm_sq, svm.params_norm_sq), rho_sq_tol))
  /\ [](/\ RLE(svm.lower_weight_decay, svm.weight_decay)
        /\ RLE(svm.weight_decay, svm.upper_weight_decay))
  /\ [][svm'.weight_decay # svm.weight_decay =>
          svm'.weight_decay =
            Midpoint(svm'.lower_weight_decay, svm'.upper_weight_decay)]_vars

\* What the search does establish: the bracket, the midpoints, and a final
\* squared norm no smaller than the target and at most rho_sq_tol above it
NormNoSmallerThanTarget ==
  /\ [](EndedByCondition =>
          /\ RLE(svm.upper_params_norm_sq, svm.params_norm_sq)
          /\ RLE(RSub(svm.params_norm_sq, svm.upper_params_norm_sq), rho_sq_tol))
  /\ [](/\ RLE(svm.lower_weight_decay, svm.weight_decay)
        /\ RLE(svm.weight_decay, svm.upper_weight_decay))
  /\ [][svm'.weight_decay # svm.weight_decay =>
          svm'.weight_decay =
            Midpoint(svm'.lower_weight_decay, svm'.upper_weight_decay)]_vars

\* ------------------------------------------------------------------------
\* UpperBound.cert_rda and generate_upper_and_lower_bounds side by side: the
\* same clean data, epsilon and hyperparameters, the same loss, zero
\* starting parameters, and an oracle that answers equal queries equally.
\* ------------------------------------------------------------------------

\* Lines 107-129 / 425-447: the locals of a loop before its first iteration
NewLoop(sc, max_iter) ==
  [ iter_idx |-> 0,
    x_bs |-> [i \in 1 .. max_iter |-> FeatureZeros(sc)],
    y_bs |-> [i \in 1 .. max_iter |-> 0],
    sum_of_grads_w |-> FeatureZeros(sc),
    sum_of_grads_b |-> RZero,
    best_upper_bound |-> Sentinel,
    current_lambda |-> RootOfSquare(RDiv(ROne, sc.learning_rate)),
    w |-> QConst(FeatureZeros(sc)),
    b |-> QConst(RZero) ]

\* Lines 142-196 / 459-520: what one iteration computes from the locals st,
\* the oracle's answers cand and the values gl, bl of the loss
LoopPass(st, cand, gl, bl) ==
  LET worst == WorstCandidate(cfg.labels, cand, st.w, st.b)
      gf    == FoldAttack(hinge_grad(st.w, st.b, cfg.sc.X, cfg.sc.Y),
                          cfg.epsilons[1], worst)
  IN  [ worst |-> worst,
        total_loss |-> TotalLoss(Int2Rat(gl), cfg.epsilons[1], Int2Rat(bl)),
        record |->
          [ best_upper_good_loss |-> Int2Rat(gl),
            best_upper_bad_loss |-> Int2Rat(bl),
            best_upper_params_norm_sq |-> ParamsNormSq(st.w, st.b),
            best_upper_good_acc |-> GoodAcc(st.w, st.b, cfg.sc.X, cfg.sc.Y),
            best_upper_bad_acc |-> BadAcc(worst.worst_margin) ],
        upd |-> DualAveragingUpdate(st.sum_of_grads_w, st.sum_of_grads_b, gf,
                                    st.current_lambda, cfg.sc.norm_sq_constraint) ]

\* Lines 176-177 and 214-225 / 499-500 and 547-557: the trace entry and the
\* dual-averaging update assigned to the locals
Advance(st, p) ==
  [st EXCEPT !.x_bs = Store(st.x_bs, st.iter_idx, p.worst.worst_x_b),
             !.y_bs = Store(st.y_bs, st.iter_idx, p.worst.worst_y_b),
             !.sum_of_grads_w = p.upd.sum_of_grads_w,
             !.sum_of_grads_b = p.upd.sum_of_grads_b,
             !.current_lambda = p.upd.current_lambda,
             !.w = p.upd.w,
             !.b = p.upd.b,
             !.iter_idx = st.iter_idx + 1]

\* cert_rda, lines 198-204: the test reads the local best_upper_bound, the
\* assignments go to the attributes of the object
CertRdaStep(c, p) ==
  [ loop |-> Advance(c.loop, p),
    best |-> IF Improves(c.loop.best_upper_bound, p.total_loss)
             THEN [ best_upper_bound |-> p.total_loss,
                    best_upper_good_loss |-> p.record.best_upper_good_loss,
                    best_upper_bad_loss |-> p.record.best_upper_bad_loss,
                    best_upper_params_norm_sq |-> p.record.best_upper_params_norm_sq,
                    best_upper_good_acc |-> p.record.best_upper_good_acc,
                    best_upper_bad_acc |-> p.record.best_upper_bad_acc ]
             ELSE c.best ]

\* legacy, lines 522-528: test and assignments on the locals
LegacyStep(l, p) ==
  IF Improves(l.loop.best_upper_bound, p.total_loss)
  THEN [ loop |-> [Advance(l.loop, p) EXCEPT !.best_upper_bound = p.total_loss],
         best_upper |-> p.record ]
  ELSE [ loop |-> Advance(l.loop, p), best_upper |-> l.best_upper ]

InitPair ==
  /\ impl = "cert_rda"
  /\ \E sc \in Scenarios, mi \in 1 .. MaxWork, e \in EpsVals :
     \E ord \in Enumerations(LabelSet(sc.Y)) :
       cfg = [ sc |-> sc, max_iter |-> mi, num_iter_to_throw_out |-> 0,
               init_w |-> FeatureZeros(sc), init_b |-> RZero,
               epsilons |-> << e >>, labels |-> ord,
               pipeline |-> << "defense", "classifier" >> ]
  /\ pair = [ pc |-> "loop",
              cert |-> [ loop |-> NewLoop(cfg.sc, cfg.max_iter),
                         best |-> NoRecord ],
              legacy |-> [ loop |-> NewLoop(cfg.sc, cfg.max_iter),
                           best_upper |-> NoBestLocals ],
              memo |-> {} ]
  /\ pc = "idle"
  /\ idx = 1
  /\ results = [ total_loss |-> << RZero >>, good_loss |-> << RZero >>,
                 bad_loss |-> << RZero >> ]
  /\ ret = None
  /\ self = NewUpperBound
  /\ writer = 0
  /\ self_at_call = NoRecord
  /\ loss_memo = {}
  /\ NoLocals
  /\ svm = NoSvm
  /\ minimizer = NoMinimizer
  /\ flip = NoFlip
  /\ attack = NoAttack
  /\ proj = NoProjection

\* Both loops run their next iteration; the oracle returns the same points
\* to the same query and the loss the same value for the same arguments
PairIter ==
  /\ pair.pc = "loop"
  /\ pair.cert.loop.iter_idx < cfg.max_iter
  /\ \E c \in { pair.cert.loop }, l \in { pair.legacy.loop } :
     \E cand1 \in Candidates(cfg.sc, c.w) :
     \E cand2 \in IF l.w = c.w THEN { cand1 } ELSE Candidates(cfg.sc, l.w) :
     \E gl1 \in loss(pair.memo, c.w, c.b, cfg.sc.X, cfg.sc.Y) :
     \E m1 \in { Remember(pair.memo, c.w, c.b, cfg.sc.X, cfg.sc.Y, gl1) } :
     \E w1 \in { WorstCandidate(cfg.labels, cand1, c.w, c.b) } :
     \E bl1 \in loss(m1, c.w, c.b, << w1.worst_x_b >>, << w1.worst_y_b >>) :
     \E m2 \in { Remember(m1, c.w, c.b, << w1.worst_x_b >>, << w1.worst_y_b >>, bl1) } :
     \E gl2 \in loss(m2, l.w, l.b, cfg.sc.X, cfg.sc.Y) :
     \E m3 \in { Remember(m2, l.w, l.b, cfg.sc.X, cfg.sc.Y, gl2) } :
     \E w2 \in { WorstCandidate(cfg.labels, cand2, l.w, l.b) } :
     \E bl2 \in loss(m3, l.w, l.b, << w2.worst_x_b >>, << w2.worst_y_b >>) :
     \E m4 \in { Remember(m3, l.w, l.b, << w2.worst_x_b >>, << w2.worst_y_b >>, bl2) } :
     \E p1 \in { LoopPass(c, cand1, gl1, bl1) }, p2 \in { LoopPass(l, cand2, gl2, bl2) } :
       pair' = [ pc |-> "loop",
                 cert |-> CertRdaStep(pair.cert, p1),
                 legacy |-> LegacyStep(pair.legacy, p2),
                 memo |-> m4 ]
  /\ UNCHANGED << flip, attack, svm, minimizer, proj, certifierVars >>

\* Both loops are over (lines 227-231 / 560-575)
PairReturn ==
  /\ pair.pc = "loop"
  /\ pair.cert.loop.iter_idx = cfg.max_iter
  /\ pair' = [pair EXCEPT !.pc = "returned"]
  /\ UNCHANGED << flip, attack, svm, minimizer, proj, certifierVars >>

NextPair == PairIter \/ PairReturn

SpecPair == InitPair /\ [][NextPair]_vars

\* The locals of the legacy loop that make up its best record
LegacyRecord(l) ==
  [ best_upper_bound |-> l.loop.best_upper_bound,
    best_upper_good_loss |-> l.best_upper.best_upper_good_loss,
    best_upper_bad_loss |-> l.best_upper.best_upper_bad_loss,
    best_upper_params_norm_sq |-> l.best_upper.best_upper_params_norm_sq,
    best_upper_good_acc |-> l.best_upper.best_upper_good_acc,
    best_upper_bad_acc |-> l.best_upper.best_upper_bad_acc ]

\* Both loops hold the same parameters, accumulators, scale and trace
SameIterates ==
  LET c == pair.cert.loop
      l == pair.legacy.loop
  IN  /\ c.iter_idx = l.iter_idx
      /\ c.w = l.w /\ c.b = l.b
      /\ c.sum_of_grads_w = l.sum_of_grads_w
      /\ c.sum_of_grads_b = l.sum_of_grads_b
      /\ c.current_lambda = l.current_lambda
      /\ c.x_bs = l.x_bs /\ c.y_bs = l.y_bs

LossWas(memo, wq, bq, X, Y, v) ==
  \E e \in memo : /\ e.key = [ p |-> ParamKey(wq, bq), X |-> X, Y |-> Y ]
                  /\ Int2Rat(e.val) = v

\* What an iteration evaluates, it evaluates at the (w, b) it started with;
\* its update of (w, b) comes last; a record it overwrites holds the values
\* of that iteration, with adversarial accuracy 1 for a worst margin above 0
\* and 0 otherwise
EvaluatedBeforeUpdate ==
  [][IterStep =>
       /\ worst_x_b' \in minimize_over_feasible_set(cfg.sc, worst_y_b', w)
       /\ worst_margin' = Margin(worst_y_b', worst_x_b', w, b)
       /\ LossWas(loss_memo', w, b, cfg.sc.X, cfg.sc.Y, good_loss')
       /\ LossWas(loss_memo', w, b, << worst_x_b' >>, << worst_y_b' >>, bad_loss')
       /\ total_loss' = RAdd(good_loss', RMul(epsilon, bad_loss'))
       /\ params_norm_sq' = ParamsNormSq(w, b)
       /\ w' = QDiv(sum_of_grads_w', current_lambda')
       /\ b' = QDiv(sum_of_grads_b', current_lambda')
       /\ LET acc == Rat(Cardinality({ i \in DOMAIN cfg.sc.Y :
                           QLT(QConst(RZero),
                               Margin(cfg.sc.Y[i], cfg.sc.X[i], w, b)) }),
                         Len(cfg.sc.Y))
              bad == IF QLT(QConst(RZero), worst_margin') THEN ROne ELSE RZero
              written == [ best_upper_good_loss |-> good_loss',
                           best_upper_bad_loss |-> bad_loss',
                           best_upper_params_norm_sq |-> params_norm_sq',
                           best_upper_good_acc |-> acc,
                           best_upper_bad_acc |-> bad ]
          IN  /\ (impl = "legacy" /\ RLT(total_loss', best_upper_bound)) =>
                   /\ best_upper_bound' = total_loss'
                   /\ best_upper' = written
              /\ (impl = "legacy" /\ ~RLT(total_loss', best_upper_bound)) =>
                   /\ best_upper_bound' = best_upper_bound
                   /\ best_upper' = best_upper
              /\ (impl = "cert_rda" /\ RLT(total_loss', best_upper_bound)) =>
                   /\ self'.best.best_upper_bound = total_loss'
                   /\ \A f \in DOMAIN written : self'.best[f] = written[f]
              /\ (impl = "cert_rda" /\ ~RLT(total_loss', best_upper_bound)) =>
                   self'.best = self.best]_vars

MaxTrace == 3

\* Clean datasets handed to the function, of 1, 2 and 3 rows
CleanSets ==
  { [ X |-> SubSeq(rows, 1, n), Y |-> SubSeq(<< 1, -1, 1 >>, 1, n) ] :
      rows \in { << Pt(1, 0, 0), Pt(-1, 0, 0), Pt(2, 0, 0) >> }, n \in 1 .. 3 }

\* The arguments of a call: clean data, a fraction of poisoned data, and a
\* trace of m iterations with one feature row per iteration (row i differs
\* from every other row and from the clean rows)
InitSample ==
  /\ \E cl \in CleanSets, m \in 0 .. MaxTrace,
        e \in { RZero, Rat(1, 2), Int2Rat(1), Rat(3, 2) } :
     \E yb \in [1 .. m -> {-1, 1}], th \in 0 .. (m + 1) :
       attack = [ pc |-> "call",
                  X_train |-> cl.X, Y_train |-> cl.Y,
                  x_bs |-> [i \in 1 .. m |-> Pt(0, i, 0)], y_bs |-> yb,
                  epsilon |-> e, num_iter_to_throw_out |-> th,
                  out |-> << >> ]
  /\ flip = NoFlip
  /\ pair = NoPair
  /\ svm = NoSvm
  /\ minimizer = NoMinimizer
  /\ proj = NoProjection
  /\ CertifierAtRest

\* One call: it returns the four results (kept here with the indices it
\* drew), or the draw raises and nothing is returned
SampleCall ==
  /\ attack.pc = "call"
  /\ \E samples \in { sample_lower_bound_attack(attack.X_train, attack.Y_train,
                                                attack.x_bs, attack.y_bs,
                                                attack.epsilon,
                                                attack.num_iter_to_throw_out) },
        raised \in ChoiceRaises(Len(attack.x_bs) - attack.num_iter_to_throw_out,
                                Round(RMul(attack.epsilon,
                                           Int2Rat(Len(attack.X_train))))) :
       IF raised
       THEN attack' = [attack EXCEPT !.pc = "raised"]
       ELSE \E smp \in samples :
              attack' = [attack EXCEPT !.pc = "returned", !.out = << smp >>]
  /\ UNCHANGED << flip, pair, svm, minimizer, proj, certifierVars >>

NextSample == SampleCall

SpecSample == InitSample /\ [][NextSample]_vars

\* C21: a returned sample holds round(epsilon * n_clean) pairwise distinct
\* trace indices, each in [num_iter_to_throw_out, max_iter); the clean rows
\* come first and unchanged, idx_train is rows 0..n_clean-1 and idx_poison
\* the appended rows, row n_clean+i carrying the features and the label of
\* the i-th drawn trace index; and when round(epsilon * n_clean) exceeds
\* max_iter - num_iter_to_throw_out the call raises and returns nothing.
C21_SampleFromKeptTrace ==
  attack.pc \in { "returned", "raised" } =>
    LET n    == Len(attack.X_train)
        m    == Len(attack.x_bs)
        th   == attack.num_iter_to_throw_out
        want == Round(RMul(attack.epsilon, Int2Rat(n)))
    IN  /\ attack.pc = "returned" =>
             LET o == attack.out[1]
                 s == o.idx_to_sample
             IN  /\ Len(s) = want
                 /\ \A i \in 1 .. want : th <= s[i] /\ s[i] < m
                 /\ \A i, j \in 1 .. want : i # j => s[i] # s[j]
                 /\ Len(o.X_modified) = n + want
                 /\ Len(o.Y_modified) = n + want
                 /\ \A i \in 1 .. n : /\ o.X_modified[i] = attack.X_train[i]
                                      /\ o.Y_modified[i] = attack.Y_train[i]
                 /\ \A i \in 1 .. want :
                      /\ o.X_modified[n + i] = attack.x_bs[s[i] + 1]
                      /\ o.Y_modified[n + i] = attack.y_bs[s[i] + 1]
                 /\ o.idx_train = << 0, n >>
                 /\ o.idx_poison = << n, n + want >>
        /\ want > m - th => attack.pc = "raised"

\* A call that returned two or more poisoned rows with iterations thrown out
C21_Witness ==
  /\ attack.pc = "returned"
  /\ attack.num_iter_to_throw_out >= 1
  /\ Len(attack.out[1].idx_to_sample) >= 2

\* ------------------------------------------------------------------------
\* The label-flip baseline script (generate_label_flip_baseline.py)
\* ------------------------------------------------------------------------
\* Largest clean dataset of the script
MaxClean == 2

\* Most values of epsilon in the list of the dataset
MaxEpsilons == 2

\* What get_data_params returns: the index of each class, the centroids,
\* the vector between them and the radii of the sphere and of the slab
FlipGeometries ==
  { [ class_map |-> [y \in {-1, 1} |-> IF y = -1 THEN 1 ELSE 2],
      centroids |-> << Pt(-1, 0, 0), Pt(1, 0, 0) >>,
      centroid_vec |-> Pt(2, 0, 0),
      sphere_radii |-> r[1],
      slab_radii |-> r[2] ] :
      r \in { << << Int2Rat(1), Int2Rat(1) >>, << Int2Rat(2), Int2Rat(2) >> >>,
              << << Int2Rat(2), Int2Rat(2) >>, << Int2Rat(6), Int2Rat(6) >> >>,
              << << Int2Rat(3), Int2Rat(1) >>, << Int2Rat(6), Int2Rat(6) >> >>,
              << << Int2Rat(3), Int2Rat(1) >>, << Int2Rat(2), Int2Rat(2) >> >> } }

\* defenses.compute_dists_under_Q(X, Y, Q, centroids, class_map, norm=2):
\* for each row its distance from the centroid of the class of its label,
\* the Euclidean one for Q = None (given here as << >>) and the one along Q
\* otherwise.  The model keeps the squares of the distances.
compute_dists_under_Q(g, X, Y, Q) ==
  [i \in DOMAIN X |->
     LET diff == VSub(X[i], g.centroids[g.class_map[Y[i]]])
     IN  IF Q = << >> THEN NormSq(diff)
         ELSE RMul(Dot(Q, diff), Dot(Q, diff))]

\* dist <= radius, on the square of the distance
WithinRadius(dist_sq, radius) ==
  /\ RLE(RZero, radius)
  /\ RLE(dist_sq, RMul(radius, radius))

\* Lines 37-68: the rows that stay inside the sphere and the slab of the
\* other class once their label is flipped
feasible_flipped_mask(g, X, Y) ==
  LET sphere_dists_flip == compute_dists_under_Q(g, X, [j \in DOMAIN Y |-> 0 - Y[j]], << >>)
      slab_dists_flip   == compute_dists_under_Q(g, X, [j \in DOMAIN Y |-> 0 - Y[j]], g.centroid_vec)
  IN  [i \in DOMAIN X |->
         LET class_idx_flip == g.class_map[0 - Y[i]]
         IN  /\ WithinRadius(sphere_dists_flip[i], g.sphere_radii[class_idx_flip])
             /\ WithinRadius(slab_dists_flip[i], g.slab_radii[class_idx_flip])]

\* Lines 104-128: the rows of the poisoned data inside the sphere and the
\* slab of the class of their label
feasible_mask(g, X, Y) ==
  LET sphere_dists == compute_dists_under_Q(g, X, Y, << >>)
      slab_dists   == compute_dists_under_Q(g, X, Y, g.centroid_vec)
  IN  [i \in DOMAIN X |->
         LET class_idx == g.class_map[Y[i]]
         IN  /\ WithinRadius(sphere_dists[i], g.sphere_radii[class_idx])
             /\ WithinRadius(slab_dists[i], g.slab_radii[class_idx])]

\* np.where(mask)[0]: the 0-based positions of the rows the mask holds
Where(mask) == { i - 1 : i \in { j \in DOMAIN mask : mask[j] } }

\* np.random.choice(a, size, replace=True) on an array a: whether it raises.
\* It raises on an empty array when samples are asked for; asked for none
\* from an empty array it raises or not with the numpy release.
ChoiceFromArrayRaises(a, size) ==
  IF a # {} THEN { FALSE }
  ELSE IF size > 0 THEN { TRUE }
  ELSE { TRUE, FALSE }

\* np.mean of a boolean slice: << >> stands for nan (the slice is empty)
Mean(mask, first, last) ==
  IF last < first THEN << >>
  ELSE << Rat(Cardinality({ i \in first .. last : mask[i] }), last - first + 1) >>

InitFlip ==
  /\ \E n \in 1 .. MaxClean, g \in FlipGeometries, ne \in 1 .. MaxEpsilons :
     \E X \in [1 .. n -> { Pt(1, 0, 0), Pt(-1, 0, 0), Pt(2, 0, 0) }],
        Y \in [1 .. n -> {-1, 1}],
        eps \in [1 .. ne -> { RZero, Rat(1, 4), Int2Rat(1) }] :
       flip = [ pc |-> "start", X_train |-> X, Y_train |-> Y, geometry |-> g,
                epsilons |-> eps, i |-> 1, feasible_flipped_mask |-> << >>,
                saved |-> << >> ]
  /\ attack = NoAttack
  /\ pair = NoPair
  /\ svm = NoSvm
  /\ minimizer = NoMinimizer
  /\ proj = NoProjection
  /\ CertifierAtRest

\* The loop over epsilons moves to the next value, or is over
NextEpsilon(f) ==
  [f EXCEPT !.i = f.i + 1,
            !.pc = IF f.i + 1 > Len(f.epsilons) THEN "done" ELSE "loop"]

\* Lines 37-73: the distances of the flipped data and the mask
FlipMask ==
  /\ flip.pc = "start"
  /\ flip' = [flip EXCEPT !.pc = "loop",
                          !.feasible_flipped_mask =
                             feasible_flipped_mask(flip.geometry, flip.X_train,
                                                   flip.Y_train)]
  /\ UNCHANGED << attack, pair, svm, minimizer, proj, certifierVars >>

\* Lines 78-80: epsilon == 0 is skipped
FlipSkip ==
  /\ flip.pc = "loop"
  /\ flip.epsilons[flip.i] = RZero
  /\ flip' = NextEpsilon(flip)
  /\ UNCHANGED << attack, pair, svm, minimizer, proj, certifierVars >>

\* Lines 83-136: the copies are drawn, appended with their labels flipped,
\* checked and saved; or the draw raises and the script stops
FlipGenerate ==
  /\ flip.pc = "loop"
  /\ flip.epsilons[flip.i] # RZero
  /\ LET eps_i      == flip.epsilons[flip.i]
         n          == Len(flip.X_train)
         num_copies == Round(RMul(eps_i, Int2Rat(n)))
         population == Where(flip.feasible_flipped_mask)
     IN  \E raised \in ChoiceFromArrayRaises(population, num_copies) :
           IF raised
           THEN flip' = [flip EXCEPT !.pc = "raised"]
           ELSE \E idx_to_copy \in [1 .. num_copies -> population] :
                \E X_modified \in { flip.X_train \o
                      [k \in 1 .. num_copies |-> flip.X_train[idx_to_copy[k] + 1]] },
                   Y_modified \in { flip.Y_train \o
                      [k \in 1 .. num_copies |-> 0 - flip.Y_train[idx_to_copy[k] + 1]] } :
                  flip' = [NextEpsilon(flip) EXCEPT !.saved = Append(flip.saved,
                     [ epsilon |-> eps_i,
                       poisoned_X_train |-> X_modified,
                       Y_train |-> Y_modified,
                       idx_to_copy |-> idx_to_copy,
                       fraction |-> Mean(feasible_mask(flip.geometry, X_modified,
                                                       Y_modified),
                                         n + 1, Len(X_modified)) ])]
  /\ UNCHANGED << attack, pair, svm, minimizer, proj, certifierVars >>

NextFlip == FlipMask \/ FlipSkip \/ FlipGenerate

SpecFlip == InitFlip /\ [][NextFlip]_vars

\* x, labelled y, is inside the sphere and the slab of the class of y
InsideFeasibleSet(g, x, y) ==
  LET k    == g.class_map[y]
      diff == VSub(x, g.centroids[k])
      along == Dot(g.centroid_vec, diff)
  IN  /\ RLE(RZero, g.sphere_radii[k])
      /\ RLE(NormSq(diff), RMul(g.sphere_radii[k], g.sphere_radii[k]))
      /\ RLE(RZero, g.slab_radii[k])
      /\ RLE(along, g.slab_radii[k])
      /\ RLE(RSub(RZero, g.slab_radii[k]), along)

\* The saved dataset d is the clean data, unchanged, followed by
\* round(epsilon * n_clean) rows, each a clean row with its label negated
\* and inside the feasible set of the class of the negated label
FlippedFeasibleCopies(d) ==
  LET n == Len(flip.X_train)
      k == Round(RMul(d.epsilon, Int2Rat(n)))
  IN  /\ RLT(RZero, d.epsilon)
      /\ Len(d.poisoned_X_train) = n + k
      /\ Len(d.Y_train) = n + k
      /\ \A i \in 1 .. n : /\ d.poisoned_X_train[i] = flip.X_train[i]
                           /\ d.Y_train[i] = flip.Y_train[i]
      /\ \A i \in (n + 1) .. (n + k) :
           /\ \E c \in 1 .. n : /\ d.poisoned_X_train[i] = flip.X_train[c]
                                /\ d.Y_train[i] = 0 - flip.Y_train[c]
           /\ InsideFeasibleSet(flip.geometry, d.poisoned_X_train[i], d.Y_train[i])

\* C22: the label-flip baseline produces a dataset for every epsilon > 0
\* and none for epsilon == 0; each dataset is the unchanged clean data
\* followed by exactly round(epsilon * n_clean) copies of clean points with
\* the label negated, every copy inside the sphere and the slab of the
\* class of its flipped label, and the sanity-check fraction of feasible
\* attack points is 100%.
C22_LabelFlipAllFeasible ==
  flip.pc # "none" =>
    /\ flip.pc # "raised"
    /\ \A j \in DOMAIN flip.saved :
         /\ FlippedFeasibleCopies(flip.saved[j])
         /\ flip.saved[j].fraction = << ROne >>
    /\ flip.pc = "done" =>
         [j \in DOMAIN flip.saved |-> flip.saved[j].epsilon] =
           SelectSeq(flip.epsilons, LAMBDA e : e # RZero)

\* What does hold: every dataset the script saves is made of feasible
\* flipped copies, the fraction is 100% when at least one point was
\* appended, and a script that ends has saved one per epsilon > 0
SavedDatasetsAreFeasibleCopies ==
  flip.pc # "none" =>
    /\ \A j \in DOMAIN flip.saved :
         /\ FlippedFeasibleCopies(flip.saved[j])
         /\ Len(flip.saved[j].idx_to_copy) >= 1
              => flip.saved[j].fraction = << ROne >>
    /\ flip.pc = "done" =>
         [j \in DOMAIN flip.saved |-> flip.saved[j].epsilon] =
           SelectSeq(flip.epsilons, LAMBDA e : e # RZero)

====
